---- MODULE Spec2Model ----
(***************************************************************************)
(* Practice-test quiz (src/app.py): answer normalisation, choice shuffle,  *)
(* scoring, and the quiz session kept in st.session_state.                 *)
(*                                                                         *)
(* Texts are sequences of one-character strings, so that str.strip() and   *)
(* str.lower() are computed.  Indices are 0-based as in the source; TLA+   *)
(* sequences are 1-based, so choices[k] of the source is choices[k + 1].   *)
(* A duck-typed Python value is a record [t, i, s, l]: t is the type tag   *)
(* ("int", "str", "list", "none"), and i, s, l hold the int, the text or   *)
(* the list elements (the fields a tag does not use are 0 / <<>>).         *)
(***************************************************************************)
EXTENDS Integers, Sequences, FiniteSets

VARIABLES
    raw,       \* engine run: the question as read from the bank
    cur,       \* engine run: the question after the steps applied so far
    phase,     \* engine run: "raw", "normalized", "shuffled", "scored", or "off"
    verdict,   \* engine run: outcome of scoring resp against cur
    qs,        \* st.session_state.qs
    i,         \* st.session_state.i
    score,     \* st.session_state.score
    done,      \* st.session_state.done
    answers,   \* st.session_state.answers
    deadline,  \* st.session_state.deadline (None is NoDeadline)
    now,       \* time.time(), in minutes
    shown,     \* index whose widgets (keys radio_i, submit_i, ...) the last run rendered, -1 if none
    event,     \* the button click that triggered the last run
    resp       \* the answer widget's value the last run's Submit handler read (None if it read none)

vars == <<raw, cur, phase, verdict, qs, i, score, done, answers, deadline, now, shown, event, resp>>

engineVars == <<raw, cur, phase, verdict>>
sessionVars == <<qs, i, score, done, answers, deadline, now, shown, event>>

\* ---------------------------------------------------------------- bounds
MaxChoices == 3
MaxAnsLen == 3
MaxTextLen == 2
MaxTime == 2
MaxLimit == 1
MaxSample == 2

\* ---------------------------------------------------------------- values
IntV(n) == [t |-> "int", i |-> n, s |-> <<>>, l |-> <<>>]
StrV(x) == [t |-> "str", i |-> 0, s |-> x, l |-> <<>>]
ListV(xs) == [t |-> "list", i |-> 0, s |-> <<>>, l |-> xs]
NoneV == [t |-> "none", i |-> 0, s |-> <<>>, l |-> <<>>]

Range(f) == {f[k] : k \in DOMAIN f}

Min(S) == CHOOSE m \in S : \A x \in S : m <= x

\* sorted(set(...)) of a set of integers
RECURSIVE SortedSeq(_)
SortedSeq(S) == IF S = {} THEN <<>> ELSE LET m == Min(S) IN <<m>> \o SortedSeq(S \ {m})

\* list.index(x): the first 0-based position of x (x is in the list)
IndexOf(lst, x) == Min({k \in 0 .. Len(lst) - 1 : lst[k + 1] = x})

\* ---------------------------------------------------------------- text
Lower(c) ==
    CASE c = "A" -> "a"
      [] c = "B" -> "b"
      [] c = "C" -> "c"
      [] c = "D" -> "d"
      [] c = "E" -> "e"
      [] c = "Z" -> "z"
      [] OTHER -> c

ToLower(s) == [k \in 1 .. Len(s) |-> Lower(s[k])]

RECURSIVE LStrip(_)
LStrip(s) == IF s # <<>> /\ Head(s) = " " THEN LStrip(Tail(s)) ELSE s

RECURSIVE RStrip(_)
RStrip(s) == IF s # <<>> /\ s[Len(s)] = " " THEN RStrip(SubSeq(s, 1, Len(s) - 1)) ELSE s

Strip(s) == RStrip(LStrip(s))

\* def norm(s): return (s or "").strip().lower()
norm(v) == IF v.t = "str" THEN ToLower(Strip(v.s)) ELSE <<>>

\* ---------------------------------------------------------------- normalize_and_shuffle
InRange(n, ch) == 0 <= n /\ n < Len(ch)

\* faulty variant: the range check of line 39 left out
ResolvedIdxsNoRange(ans, ch) ==
    {ans[k].i : k \in {j \in DOMAIN ans : ans[j].t = "int"}}
    \cup {IndexOf(ch, ans[k].s) : k \in {j \in DOMAIN ans : ans[j].t = "str" /\ ans[j].s \in Range(ch)}}

\* the indices a list answer resolves to (lines 37-42)
ResolvedIdxs(ans, ch) ==
    {ans[k].i : k \in {j \in DOMAIN ans : ans[j].t = "int" /\ InRange(ans[j].i, ch)}}
    \cup {IndexOf(ch, ans[k].s) : k \in {j \in DOMAIN ans : ans[j].t = "str" /\ ans[j].s \in Range(ch)}}

IntList(sq) == ListV([k \in 1 .. Len(sq) |-> IntV(sq[k])])

\* the per-question normalisation (lines 30-46)
NormalizeAnswer(q) ==
    LET ch == q.choices
        ans == q.answer
    IN  IF ch = <<>> THEN ans
        ELSE IF ans.t = "list" THEN IntList(SortedSeq(ResolvedIdxs(ans.l, ch)))
        ELSE IF ans.t = "str" /\ ans.s \in Range(ch) THEN IntV(IndexOf(ch, ans.s))
        ELSE ans

Normalize(q) == [q EXCEPT !.answer = NormalizeAnswer(q)]

\* random.shuffle(order) can leave any permutation of range(len(ch))
Orders(n) == {p \in [1 .. n -> 0 .. n - 1] : \A a, b \in 1 .. n : a # b => p[a] # p[b]}

\* faulty variant: order[ci] in place of order.index(ci)
OrderAt(order, ci) == order[ci + 1]

\* order.index(ci)
OrderIndex(order, ci) == IndexOf(order, ci)

RemapAnswer(ans, order) ==
    IF ans.t = "int" /\ 0 <= ans.i /\ ans.i < Len(order) THEN IntV(OrderIndex(order, ans.i))
    ELSE IF ans.t = "list"
         THEN IntList(SortedSeq({OrderIndex(order, ans.l[k].i) :
                  k \in {j \in DOMAIN ans.l : ans.l[j].t = "int" /\ 0 <= ans.l[j].i /\ ans.l[j].i < Len(order)}}))
    ELSE ans

\* the choice shuffle of one question (lines 49-63); order is what random.shuffle left
Shuffle(q, order) ==
    IF q.choices = <<>> THEN q
    ELSE [q EXCEPT !.choices = [k \in 1 .. Len(q.choices) |-> q.choices[order[k] + 1]],
                   !.answer = RemapAnswer(q.answer, order)]

\* ---------------------------------------------------------------- scoring (the Submit handler)
IsMcq(q) == q.choices # <<>>

\* lines 245-248
IsTwoCorrect(q) == IsMcq(q) /\ q.answer.t = "list" /\ Len(q.answer.l) = 2

\* faulty variant: an answer that resolves to nothing falls back to the first option
CorrectIndicesDefaultFirst(q) ==
    IF q.answer.t = "int" THEN <<q.answer.i>>
    ELSE IF q.answer.t = "list" THEN SortedSeq({q.answer.l[k].i : k \in DOMAIN q.answer.l})
    ELSE IF q.answer.t = "str" /\ q.answer.s \in Range(q.choices)
         THEN <<IndexOf(q.choices, q.answer.s)>>
    ELSE <<0>>

\* lines 280-289: the canonical list of correct indices
CorrectIndices(q) ==
    IF q.answer.t = "int" THEN <<q.answer.i>>
    ELSE IF q.answer.t = "list" THEN SortedSeq({q.answer.l[k].i : k \in DOMAIN q.answer.l})
    ELSE IF q.answer.t = "str" /\ q.answer.s \in Range(q.choices)
         THEN <<IndexOf(q.choices, q.answer.s)>>
    ELSE <<>>

\* line 296: the indices of the selected options
UserIndices(q, r) == {IndexOf(q.choices, r.l[k].s) : k \in DOMAIN r.l}

\* line 306: the acceptable answers of a free-text question
Acceptable(q) == IF q.answer.t = "list" THEN q.answer.l ELSE <<q.answer>>

\* lines 291-297: multiselect, exactly two must be chosen
ScoreTwo(q, r) ==
    IF Len(r.l) # 2 THEN "reject"
    ELSE IF UserIndices(q, r) = Range(CorrectIndices(q)) THEN "correct" ELSE "incorrect"

\* lines 299-303: radio
ScoreRadio(q, r) ==
    IF r.t = "none" THEN "reject"
    ELSE IF CorrectIndices(q) # <<>> /\ IndexOf(q.choices, r.s) = CorrectIndices(q)[1]
         THEN "correct" ELSE "incorrect"

\* lines 305-307: free text
ScoreText(q, r) ==
    IF norm(r) \in {norm(Acceptable(q)[k]) : k \in DOMAIN Acceptable(q)}
    THEN "correct" ELSE "incorrect"

\* lines 276-307: "reject" is the st.stop() exit
Score(q, r) ==
    IF IsMcq(q)
    THEN IF IsTwoCorrect(q) THEN ScoreTwo(q, r) ELSE ScoreRadio(q, r)
    ELSE ScoreText(q, r)

\* ---------------------------------------------------------------- inputs
Letters == <<"A", "B", "C", "D", "E">>

Txt(c) == <<c>>

SeqsUpTo(S, n) == UNION {[1 .. k -> S] : k \in 0 .. n}

\* choice lists of a bank: distinct options, and two lists that repeat an option
ChoiceLists ==
    {[k \in 1 .. n |-> Txt(Letters[k])] : n \in 1 .. MaxChoices}
    \cup {<<Txt("A"), Txt("A")>>, <<Txt("B"), Txt("A"), Txt("B")>>}

McqAnswerElems == {IntV(-1), IntV(0), IntV(2), StrV(Txt("A")), StrV(Txt("B")), StrV(Txt("Z"))}

McqAnswers ==
    {IntV(n) : n \in -1 .. MaxChoices}
    \cup {StrV(Txt("A")), StrV(Txt("C")), StrV(Txt("Z")), NoneV}
    \cup {ListV(l) : l \in SeqsUpTo(McqAnswerElems, MaxAnsLen)}

Chars == {" ", "a", "A", "b"}

FreeTexts == SeqsUpTo(Chars, MaxTextLen)

FreeListTexts == {<<>>, <<"a">>, <<" ", "A">>, <<"b", " ">>}

FreeAnswers ==
    {StrV(x) : x \in FreeTexts} \cup {NoneV}
    \cup {ListV(l) : l \in SeqsUpTo({StrV(x) : x \in FreeListTexts}, 2)}

RawQuestions ==
    {[prompt |-> "q", choices |-> ch, answer |-> a] : ch \in ChoiceLists, a \in McqAnswers}
    \cup {[prompt |-> "q", choices |-> <<>>, answer |-> a] : a \in FreeAnswers}

\* the values the answer widget of question q can hold when Submit is pressed:
\* st.multiselect (options in list order), st.radio(index=None), st.text_input
Selections(ch) ==
    {ListV([k \in 1 .. Len(sel) |-> StrV(ch[sel[k] + 1])]) :
        sel \in {SortedSeq(S) : S \in SUBSET (0 .. Len(ch) - 1)}}

Responses(q) ==
    IF IsMcq(q)
    THEN IF IsTwoCorrect(q) THEN Selections(q.choices)
         ELSE {NoneV} \cup {StrV(q.choices[k]) : k \in DOMAIN q.choices}
    ELSE {StrV(x) : x \in FreeTexts}

\* ---------------------------------------------------------------- the engine run
NoDeadline == -1

SessionIdle ==
    /\ qs = <<>> /\ i = 0 /\ score = 0 /\ done = FALSE /\ answers = <<>>
    /\ deadline = NoDeadline /\ now = 0 /\ shown = -1 /\ event = "none"

EngineInit ==
    /\ raw \in RawQuestions
    /\ cur = raw
    /\ phase = "raw"
    /\ verdict = "none"
    /\ resp = NoneV
    /\ SessionIdle

\* normalize_and_shuffle, first half
EngNormalize ==
    /\ phase = "raw"
    /\ cur' = Normalize(cur)
    /\ phase' = "normalized"
    /\ UNCHANGED <<raw, verdict, resp>>
    /\ UNCHANGED sessionVars

\* normalize_and_shuffle, second half (shuffle_choices = True)
EngShuffle ==
    /\ phase = "normalized"
    /\ \E order \in Orders(Len(cur.choices)) : cur' = Shuffle(cur, order)
    /\ phase' = "shuffled"
    /\ UNCHANGED <<raw, verdict, resp>>
    /\ UNCHANGED sessionVars

\* the Submit handler's scoring of the question as the session holds it
EngScore ==
    /\ phase \in {"normalized", "shuffled"}
    /\ \E r \in Responses(cur) :
         /\ resp' = r
         /\ verdict' = Score(cur, r)
    /\ phase' = "scored"
    /\ UNCHANGED <<raw, cur>>
    /\ UNCHANGED sessionVars

EngineNext == EngNormalize \/ EngShuffle \/ EngScore

EngineSpec == EngineInit /\ [][EngineNext]_vars

\* ---------------------------------------------------------------- the quiz session
\* the banks load_questions() can return: no questions (no subject found, an empty or
\* unreadable file), or the questions of the chosen test file(s)
QSingle == [prompt |-> "single", choices |-> <<Txt("A"), Txt("B")>>, answer |-> StrV(Txt("B"))]
QTwo == [prompt |-> "two", choices |-> <<Txt("A"), Txt("B"), Txt("C")>>,
         answer |-> ListV(<<IntV(0), StrV(Txt("C"))>>)]
QText == [prompt |-> "text", choices |-> <<>>, answer |-> StrV(<<" ", "A">>)]
QBadStr == [prompt |-> "badstr", choices |-> <<Txt("A"), Txt("B")>>, answer |-> StrV(Txt("Z"))]
QBadInt == [prompt |-> "badint", choices |-> <<Txt("A"), Txt("B")>>, answer |-> IntV(2)]
QBadList == [prompt |-> "badlist", choices |-> <<Txt("A"), Txt("B")>>,
             answer |-> ListV(<<StrV(Txt("Z")), IntV(-1)>>)]

Banks == {<<>>, <<QSingle, QText>>, <<QTwo>>, <<QBadStr, QBadInt>>, <<QBadList>>}

BankQuestions == UNION {Range(b) : b \in Banks}

\* the bank entry a session question was made from
RawOf(q) == CHOOSE r \in BankQuestions : r.prompt = q.prompt

Permute(lst, p) == [k \in 1 .. Len(lst) |-> lst[p[k] + 1]]

Take(lst, n) == SubSeq(lst, 1, IF n < Len(lst) THEN n ELSE Len(lst))

\* lines 181-190: the question lists the sampling and the order shuffle can leave
Sampled(questions, num) ==
    IF num > 0 THEN {Take(Permute(questions, p), num) : p \in Orders(Len(questions))}
    ELSE {questions}

Arranged(questions, num, shuffle_q) ==
    IF shuffle_q
    THEN UNION {{Permute(smp, p) : p \in Orders(Len(smp))} : smp \in Sampled(questions, num)}
    ELSE Sampled(questions, num)

\* normalize_and_shuffle(qs, shuffle_choices): every result it can leave
NormalizedAndShuffled(q, shuffle_c) ==
    IF shuffle_c
    THEN {Shuffle(Normalize(q), order) : order \in Orders(Len(q.choices))}
    ELSE {Normalize(q)}

RECURSIVE NormalizeAndShuffle(_, _)
NormalizeAndShuffle(lst, shuffle_c) ==
    IF lst = <<>> THEN {<<>>}
    ELSE {<<h>> \o t : h \in NormalizedAndShuffled(Head(lst), shuffle_c),
                       t \in NormalizeAndShuffle(Tail(lst), shuffle_c)}

\* lines 181-193: every question list init_quiz can leave for one bank, over the
\* sidebar settings (number of questions, shuffle questions, shuffle choices)
InitQuizResults(questions) ==
    UNION {UNION {NormalizeAndShuffle(lst, shuffle_c) : lst \in Arranged(questions, num, shuffle_q)} :
              num \in 0 .. MaxSample, shuffle_q \in BOOLEAN, shuffle_c \in BOOLEAN}

Quizzes == [questions \in Banks |-> InitQuizResults(questions)]

\* faulty variant: the "if time_limit_min else None" left out
DeadlineForAlways(start, limit) == start + limit

\* line 201
DeadlineFor(start, limit) == IF limit # 0 THEN start + limit ELSE NoDeadline

\* faulty variant: > in place of >=
ExpiredStrict(t) == deadline # NoDeadline /\ t > deadline

\* line 232: the lazy timer check of a run at time t
Expired(t) == deadline # NoDeadline /\ t >= deadline

\* lines 218, 232-236 at time t: done after the timer check, and whether the question
\* widgets are rendered
DoneAfterTimer(t) == done \/ (Len(qs) > 0 /\ Expired(t))

Rendered(t) == Len(qs) > 0 /\ ~DoneAfterTimer(t) /\ i < Len(qs)

\* lines 309-313 and 348-352
Record(idx, user, correct) == [q_index |-> idx, user |-> user, correct |-> correct]

\* faulty variant: the score counts every submission
NewScoreAlways(sc, correct) == sc + 1

\* lines 314-315
NewScore(sc, correct) == IF correct THEN sc + 1 ELSE sc

\* faulty variant: > in place of >=
FinishesLate(pos, n) == pos > n

\* lines 344-345 and 354-355
Finishes(pos, n) == pos >= n

EngineOff ==
    /\ raw = QText /\ cur = QText /\ phase = "off" /\ verdict = "none"

\* lines 158-169
Init ==
    /\ qs = <<>> /\ i = 0 /\ score = 0 /\ done = FALSE /\ answers = <<>>
    /\ deadline = NoDeadline
    /\ now = 0 /\ shown = -1 /\ event = "none" /\ resp = NoneV
    /\ EngineOff

Elapse(dt) == now + dt <= MaxTime /\ now' = now + dt

\* the rest of a run that handles no question button: timer check and rendering
RenderOnly ==
    /\ done' = DoneAfterTimer(now')
    /\ shown' = IF Rendered(now') THEN i ELSE -1
    /\ UNCHANGED <<qs, i, score, answers, deadline>>

\* lines 180-201, then the rendering of question 0 in the same run (the new deadline
\* is at least a minute away)
InitQuiz(questions, limit) ==
    /\ qs' \in Quizzes[questions]
    /\ i' = 0
    /\ score' = 0
    /\ done' = FALSE
    /\ answers' = <<>>
    /\ deadline' = DeadlineFor(now', limit)
    /\ shown' = 0

\* lines 207-211: "Start / Restart quiz" pressed with the sidebar as it stands
Start ==
    \E dt \in 0 .. 1, questions \in Banks, limit \in 0 .. MaxLimit :
        /\ Elapse(dt)
        /\ \/ /\ questions = <<>>
              /\ event' = "start_refused"
              /\ RenderOnly
           \/ /\ questions # <<>>
              /\ event' = IF qs = <<>> THEN "start" ELSE "restart"
              /\ InitQuiz(questions, limit)
        /\ resp' = NoneV
        /\ UNCHANGED engineVars

\* lines 275-345: Submit pressed on the page that shows question i
Submit ==
    \E dt \in 0 .. 1 :
        /\ shown = i
        /\ Elapse(dt)
        /\ event' = "submit"
        /\ IF ~Rendered(now') THEN RenderOnly /\ resp' = NoneV
           ELSE \E r \in Responses(qs[i + 1]) :
               /\ resp' = r
               /\ IF Score(qs[i + 1], r) = "reject"
                  THEN /\ shown' = i
                       /\ UNCHANGED <<qs, i, score, done, answers, deadline>>
                  ELSE LET correct == Score(qs[i + 1], r) = "correct" IN
                       /\ answers' = Append(answers, Record(i, r, correct))
                       /\ score' = NewScore(score, correct)
                       /\ i' = i + 1
                       /\ done' = Finishes(i + 1, Len(qs))
                       /\ shown' = i
                       /\ UNCHANGED <<qs, deadline>>
        /\ UNCHANGED engineVars

\* lines 347-355: Skip pressed on the page that shows question i
Skip ==
    \E dt \in 0 .. 1 :
        /\ shown = i
        /\ Elapse(dt)
        /\ event' = "skip"
        /\ IF ~Rendered(now') THEN RenderOnly
           ELSE /\ answers' = Append(answers, Record(i, NoneV, FALSE))
                /\ i' = i + 1
                /\ done' = Finishes(i + 1, Len(qs))
                /\ shown' = i
                /\ UNCHANGED <<qs, score, deadline>>
        /\ resp' = NoneV
        /\ UNCHANGED engineVars

\* any other interaction (a sidebar or answer widget change, a press on a button of
\* a page that is no longer current): the script runs and handles no button
Rerun ==
    \E dt \in 0 .. 1 :
        /\ Elapse(dt)
        /\ event' = "rerun"
        /\ RenderOnly
        /\ resp' = NoneV
        /\ UNCHANGED engineVars

Next == Start \/ Submit \/ Skip \/ Rerun

Spec == Init /\ [][Next]_vars

\* ---------------------------------------------------------------- claims about the engine run
\* the canonical index form: one in-range index, or ascending unique in-range indices
Ascending(l) == \A a, b \in DOMAIN l : a < b => l[a].i < l[b].i

Canonical(q) ==
    \/ q.answer.t = "int" /\ InRange(q.answer.i, q.choices)
    \/ /\ q.answer.t = "list"
       /\ \A k \in DOMAIN q.answer.l : q.answer.l[k].t = "int" /\ InRange(q.answer.l[k].i, q.choices)
       /\ Ascending(q.answer.l)

\* a raw MCQ answer of the kinds a bank may hold: int, string, list of ints / strings
RawMcq == IsMcq(raw) /\ raw.answer.t # "none"

\* an out-of-range integer, or a string that is none of the choices
Unmatched(q) ==
    \/ q.answer.t = "int" /\ ~InRange(q.answer.i, q.choices)
    \/ q.answer.t = "str" /\ q.answer.s \notin Range(q.choices)

\* the indices the submitted widget value resolves to
RespIndices(q, r) ==
    IF r.t = "list" THEN UserIndices(q, r)
    ELSE IF r.t = "str" THEN {IndexOf(q.choices, r.s)}
    ELSE {}

AnswerSet(q) == {q.answer.l[k].i : k \in DOMAIN q.answer.l}

\* C1 (as stated): a scored submission to an MCQ whose answer is a list of indices is
\* correct iff the set of selected indices equals the set of correct indices.
C1_ExactSetMatch ==
    (phase = "scored" /\ IsMcq(cur) /\ cur.answer.t = "list" /\ verdict # "reject")
        => (verdict = "correct" <=> RespIndices(cur, resp) = AnswerSet(cur))

\* C2 (as stated): after normalisation every MCQ answer is in canonical index form.
C2_AlwaysCanonical ==
    (phase = "normalized" /\ RawMcq) => Canonical(cur)

\* C2 (amended): after normalisation (and after the shuffle) an MCQ answer is in
\* canonical index form, except that an out-of-range integer and a string that is
\* none of the choices are left exactly as they were.
C2_CanonicalOrLeftAsIs ==
    (phase \in {"normalized", "shuffled"} /\ RawMcq)
        => IF Unmatched(raw) THEN cur.answer = raw.answer ELSE Canonical(cur)

C2_Witness ==
    /\ phase = "normalized" /\ IsMcq(raw)
    /\ raw.answer.t = "list" /\ Len(raw.answer.l) = 3
    /\ \E k \in DOMAIN raw.answer.l : raw.answer.l[k].t = "str"
    /\ Len(cur.answer.l) = 2

\* C3 (as stated): a free-text submission is correct iff the trimmed, lower-cased
\* response equals a trimmed, lower-cased acceptable answer, and an empty response is
\* never correct.
C3_FreeTextMatch ==
    (phase = "scored" /\ ~IsMcq(cur))
        => /\ verdict = "correct" <=>
                \E k \in DOMAIN Acceptable(cur) :
                    Acceptable(cur)[k].t = "str"
                    /\ ToLower(Strip(resp.s)) = ToLower(Strip(Acceptable(cur)[k].s))
           /\ resp.s = <<>> => verdict # "correct"

\* the texts of the correct options
CorrectTexts(q) ==
    IF q.answer.t = "int" THEN {q.choices[q.answer.i + 1]}
    ELSE {q.choices[q.answer.l[k].i + 1] : k \in DOMAIN q.answer.l}

Count(ch, x) == Cardinality({k \in DOMAIN ch : ch[k] = x})

\* C4: the choice shuffle of a canonical MCQ keeps the set of correct option texts,
\* the multiset of choices, and the shape of the answer.
C4_ShufflePreservesCorrectTexts ==
    [][(phase = "normalized" /\ phase' = "shuffled" /\ IsMcq(cur) /\ Canonical(cur))
          => /\ CorrectTexts(cur') = CorrectTexts(cur)
             /\ Len(cur'.choices) = Len(cur.choices)
             /\ \A x \in Range(cur.choices) \cup Range(cur'.choices) :
                    Count(cur'.choices, x) = Count(cur.choices, x)
             /\ cur'.answer.t = cur.answer.t
             /\ Canonical(cur')
             /\ cur.answer.t = "list" => Len(cur'.answer.l) = Len(cur.answer.l)]_vars

C4_Witness ==
    /\ phase = "shuffled" /\ Len(cur.choices) = 3
    /\ cur.choices # raw.choices
    /\ cur.answer.t = "list" /\ Len(cur.answer.l) = 2
    /\ cur.answer # Normalize(raw).answer

\* ---------------------------------------------------------------- claims about the session
StartEvents == {"start", "restart"}

\* the run that leads to the primed state appended one AttemptRecord
Recorded == event' \in {"submit", "skip"} /\ Len(answers') = Len(answers) + 1

\* the deadline has been reached when the run that leads to the primed state polls it
DeadlineReached == deadline # NoDeadline /\ now' >= deadline

InProgress == Len(qs) > 0 /\ ~done /\ i < Len(qs)

\* C5 (as stated): position never passes the question count, and the session becomes
\* Finished only on the record that makes position equal to the count.
C5_FinishOnlyOnLastRecord ==
    [][/\ i' <= Len(qs')
       /\ (~done /\ done') => (Recorded /\ i' = Len(qs'))]_vars

\* C5 (amended): a record advances position by one and never past the question
\* count; it finishes the session exactly when it makes position equal to the count;
\* the session becomes Finished either on that record or on a run that finds the
\* deadline reached (which records nothing); and once Finished it stays Finished
\* until a restart.
C5_FinishOnLastRecordOrTimeout ==
    [][/\ i' <= Len(qs')
       /\ Recorded => (i' = i + 1 /\ (done' <=> i' = Len(qs)))
       /\ (~done /\ done') =>
              \/ Recorded /\ i' = Len(qs')
              \/ DeadlineReached /\ i' = i /\ answers' = answers
       /\ (done /\ event' \notin StartEvents) => done']_vars

C5_Witness ==
    /\ done /\ Len(qs) = 2 /\ i = 2 /\ Len(answers) = 2
    /\ event = "submit" /\ (deadline = NoDeadline \/ now < deadline)

\* C6: a run (other than a restart) that finds the deadline reached while the session
\* is in progress marks it Finished, whatever the position, and a Submit or Skip of
\* that run appends no record and changes neither score nor position.
C6_TimeoutFinishesWithoutRecord ==
    [][(InProgress /\ DeadlineReached /\ event' \in {"submit", "skip", "rerun", "start_refused"})
          => (done' /\ answers' = answers /\ score' = score /\ i' = i)]_vars

C6_Witness ==
    /\ event = "submit" /\ done
    /\ Len(qs) = 2 /\ i = 1 /\ Len(answers) = 1
    /\ deadline # NoDeadline /\ now >= deadline

\* an MCQ answer that resolves to no in-range choice index
Unresolvable(q) ==
    /\ IsMcq(q)
    /\ \/ Unmatched(q)
       \/ q.answer.t = "list" /\ ResolvedIdxs(q.answer.l, q.choices) = {}

\* C7: an accepted submission to an MCQ whose bank answer resolves to no choice is
\* scored incorrect, shuffled or not, and is still recorded, and the session advances.
C7_UnresolvableAlwaysIncorrect ==
    [][(event' = "submit" /\ Rendered(now') /\ resp'.t # "none"
            /\ Unresolvable(RawOf(qs[i + 1])))
          => /\ answers' = Append(answers, Record(i, resp', FALSE))
             /\ score' = score
             /\ i' = i + 1]_vars

C7_Witness ==
    /\ event = "submit" /\ i >= 1 /\ Len(answers) = i
    /\ Unresolvable(RawOf(qs[i]))
    /\ qs[i].choices # RawOf(qs[i]).choices
    /\ answers[i].user.t = "str" /\ ~answers[i].correct

SelectionCount(r) == IF r.t = "list" THEN Len(r.l) ELSE IF r.t = "str" THEN 1 ELSE 0

EmptyResponse(r) ==
    \/ r.t = "none"
    \/ r.t = "str" /\ r.s = <<>>
    \/ r.t = "list" /\ r.l = <<>>

\* a selection count that differs from the number of correct answers (of a question
\* that has correct answers), or an empty response
InvalidShape(q, r) ==
    \/ IsMcq(q) /\ q.answer.t = "list" /\ q.answer.l # <<>> /\ SelectionCount(r) # Len(q.answer.l)
    \/ EmptyResponse(r)

\* C8 (as stated): a submission of invalid shape (a selection count that differs from
\* the number of correct answers, or an empty response) appends no record and leaves
\* score, position and the terminal flag unchanged.
C8_InvalidShapeRejected ==
    [][(event' = "submit" /\ Rendered(now') /\ InvalidShape(qs[i + 1], resp'))
          => (answers' = answers /\ score' = score /\ i' = i /\ done' = done)]_vars

Fresh ==
    /\ i' = 0 /\ score' = 0 /\ answers' = <<>> /\ ~done'
    /\ deadline' \in {NoDeadline} \cup {now' + limit : limit \in 1 .. MaxLimit}

\* C9 (as stated): every press of Start / Restart yields a fresh session, and only a
\* press of Start / Restart leaves Finished.
C9_StartAlwaysResets ==
    [][/\ event' \in StartEvents \cup {"start_refused"} => Fresh
       /\ (done /\ ~done') => event' \in StartEvents \cup {"start_refused"}]_vars

\* C9 (amended): a press of Start / Restart with at least one question loaded yields,
\* from any session state, position 0, score 0, no records, terminal flag false and a
\* deadline of now + limit (none without a limit); with no question loaded it leaves
\* the questions, position, score, records and deadline as they are; only a press
\* with questions loaded leaves Finished.
C9_StartWithQuestionsResets ==
    [][/\ event' \in StartEvents => (Fresh /\ qs' # <<>>)
       /\ event' = "start_refused" => UNCHANGED <<qs, i, score, answers, deadline>>
       /\ (done /\ ~done') => event' \in StartEvents]_vars

C9_Witness ==
    /\ event = "restart" /\ i = 0 /\ score = 0 /\ answers = <<>> /\ ~done
    /\ now >= 1 /\ deadline = now + 1

CorrectCount == Cardinality({k \in DOMAIN answers : answers[k].correct})

\* C10: there is one record per position passed, the k-th for question k; the score
\* is the number of correct records; 0 <= score <= position <= question count; and
\* records are only appended, except that a restart clears them.
C10_RecordsMatchPosition ==
    /\ [](/\ Len(answers) = i
          /\ \A k \in DOMAIN answers : answers[k].q_index = k - 1
          /\ score = CorrectCount
          /\ 0 <= score /\ score <= i /\ i <= Len(qs))
    /\ [][event' \notin StartEvents
             => /\ Len(answers') >= Len(answers)
                /\ SubSeq(answers', 1, Len(answers)) = answers]_vars

C10_Witness ==
    /\ Len(qs) = 2 /\ i = 2 /\ done /\ score = 1
    /\ answers[1].correct /\ answers[2].user = NoneV /\ event = "skip"

====
